---------------------------- MODULE Spec2Model ----------------------------
(***************************************************************************)
(* A model of ipc::Channel (src/src/ipc_channel.h): Send drives an         *)
(* encoder and hands its buffer to the transport; Receive pulls chunks     *)
(* from the transport, feeds a decoder that calls back into RxHandler,     *)
(* and dispatches the accumulated message.                                 *)
(*                                                                         *)
(* Representation.                                                         *)
(*  - A WireType is [id |-> tag, v |-> bytes]: the tag and the stored      *)
(*    bytes, least significant byte first (4 for int32/uint32, 2 for       *)
(*    char16, 1 for char8, the characters of a string, nothing for none    *)
(*    and the null strings).                                               *)
(*  - A size_t result is written as the signed integer congruent to it:    *)
(*    the value of `return -1` is -1, and a transport or handler that      *)
(*    returns SIZE_MAX returns -1 as well.                                 *)
(*  - A call on an external collaborator (encoder, transport, dispatch)    *)
(*    is a record appended to a log.                                     *)
(***************************************************************************)
EXTENDS Integers, Sequences, FiniteSets, TLC

\* ------------------------------------------------------------------ bounds

\* Longest argument list a caller passes to Send / a peer puts on the wire.
MaxArgs == 9
\* Largest step between consecutive entries of a generated argument list.
MaxStride == 1
\* Most frames the transport returns in one chunk.
MaxChunk == 2
\* Most empty chunks the transport returns during one Receive.
MaxEmpty == 1

\* The callbacks made on a handler driven alone, and how many of them may
\* be rejected.
MaxCallbacks == 3
MaxRejected == 1
\* The Receive calls made one after the other on one channel.
MaxCalls == 2

\* --------------------------------------------------------------- constants

kMaxNumArgs == 8

\* --------------------------------------------------------------- WireType

Tags ==
  << "TYPE_NONE", "TYPE_INT32", "TYPE_UINT32", "TYPE_CHAR8", "TYPE_CHAR16",
     "TYPE_STRING8", "TYPE_BARRAY", "TYPE_STRING16", "TYPE_NULLSTRING8",
     "TYPE_NULLSTRING16", "TYPE_UNIX_FD", "TYPE_WIN_HANDLE" >>

\* The bytes of s up to, not including, its first 0: what a constructor
\* taking a C string (c_str()) sees.
RECURSIVE CStr(_)
CStr(s) ==
  IF s = <<>> \/ Head(s) = 0 THEN <<>> ELSE <<Head(s)>> \o CStr(Tail(s))

\* The first n bytes of a word.
LowBytes(bits, n) == SubSeq(bits, 1, n)

\* b padded with zero bytes to a 32-bit word.
Word(b) == b \o [i \in 1..(4 - Len(b)) |-> 0]

\* Constructors.
WireNone        == [id |-> "TYPE_NONE", v |-> <<>>]
WireInt(b)      == [id |-> "TYPE_INT32", v |-> LowBytes(b, 4)]
WireUInt(b)     == [id |-> "TYPE_UINT32", v |-> LowBytes(b, 4)]
WireChar(b)     == [id |-> "TYPE_CHAR8", v |-> LowBytes(b, 1)]
WireWChar(b)    == [id |-> "TYPE_CHAR16", v |-> LowBytes(b, 2)]
\* WireType(const char*): a null pointer gives the null-string value, any
\* other the string up to its terminating zero, which the value keeps a
\* copy of.
WireCStr8(isNull, s) ==
  IF isNull THEN [id |-> "TYPE_NULLSTRING8", v |-> <<>>]
  ELSE [id |-> "TYPE_STRING8", v |-> CStr(s)]
WireCStr16(isNull, s) ==
  IF isNull THEN [id |-> "TYPE_NULLSTRING16", v |-> <<>>]
  ELSE [id |-> "TYPE_STRING16", v |-> CStr(s)]
\* WireType(ByteArray(size, ptr)): size bytes, zeros included.
WireByteArray(s) == [id |-> "TYPE_BARRAY", v |-> s]
WireUnixFd(fd)   == [id |-> "TYPE_UNIX_FD", v |-> fd]
WireWinHandle(h) == [id |-> "TYPE_WIN_HANDLE", v |-> h]

\* Accessors.
Id(w)         == w.id
GetAsBits(w)  == Word(w.v)
GetString8(w) == w.v
GetString16(w) == w.v
GetUnixFD(w)  == w.v
GetWinHandle(w) == w.v

\* The values arguments are drawn from: every tag, the scalars with more
\* than one byte set, an empty and a non-empty string, a byte array with a
\* zero byte and one with the bytes of the string.
Vals ==
  << WireNone,
     WireInt(<<42, 0, 0, 0>>),
     WireInt(<<255, 255, 255, 255>>),
     WireUInt(<<255, 255, 255, 255>>),
     WireChar(<<65>>),
     WireWChar(<<187, 3>>),
     WireCStr8(TRUE, <<>>),
     WireCStr16(TRUE, <<>>),
     WireCStr8(FALSE, <<>>),
     WireCStr8(FALSE, <<112, 105>>),
     WireByteArray(<<112, 105>>),
     WireByteArray(<<0, 7>>),
     WireCStr16(FALSE, <<955, 960>>),
     WireUnixFd(<<3>>),
     WireWinHandle(<<4>>) >>

\* The list of len entries of pool that starts at start and advances by
\* stride, wrapping around.
Generated(pool, start, stride, len) ==
  [i \in 1..len |-> pool[((start - 1 + (i - 1) * stride) % Len(pool)) + 1]]

\* The arguments of the scenario Send(7, [int32(42), string8("ping")]).
ScenarioArgs == <<WireInt(<<42, 0, 0, 0>>), WireCStr8(FALSE, <<112, 105, 110, 103>>)>>

\* The argument lists of a Send that runs beside a Receive.
DuplexArgLists == { Generated(Vals, start, 1, len) : start \in {1, 9}, len \in {0, 2} }

ArgLists ==
  { Generated(Vals, start, stride, len) :
      start \in 1..Len(Vals), stride \in 0..MaxStride, len \in 0..MaxArgs }
    \cup {ScenarioArgs}

MsgIds == {7, 8}


\* ------------------------------------------------------ calls and frames

\* A call on a collaborator, and a frame of an encoded message: an
\* operation, its payload and the type tag passed with it.
Call(op, a, tag) == [op |-> op, a |-> a, tag |-> tag]

NoCall == Call("", <<>>, "")

OnOps == {"OnWord", "OnString8", "OnString16", "OnUnixFd", "OnWinHandle"}

\* -------------------------------------------------------------- encoder

\* The encoder a Send constructs: nothing opened, nothing recorded.
NewEncoder == [n |-> 0, items |-> <<>>, msg_id |-> 0]

\* An encoder that fails one of its calls: Open, the on_* call for the
\* k-th argument, Close or GetBuffer; at = "none" is the encoder that accepts all.
EncoderFaults ==
  { [at |-> a, k |-> 0] : a \in {"none", "Open", "Close", "GetBuffer"} }
    \cup { [at |-> "arg", k |-> k] : k \in 1..2 }

\* What the encoder answers to a call: Open, Close and on_* return false
\* on the faulty call.
EncoderOpen(fault) == fault.at # "Open"
EncoderOnArg(fault, k) == ~(fault.at = "arg" /\ fault.k = k)
EncoderClose(fault) == fault.at # "Close"

\* The finished buffer: the message start (id and declared count), the
\* recorded elements in call order, the end mark. <<>> is the null buffer.
EncoderGetBuffer(enc, fault) ==
  IF fault.at = "GetBuffer" THEN <<>>
  ELSE <<Call("start", <<enc.msg_id, enc.n>>, "")>> \o enc.items
         \o <<Call("end", <<>>, "")>>

\* ------------------------------------------------------- AddMsgElement

\* AddMsgElement sending a null string as the string it has no bytes of.
AddMsgElement_NullAsString(wtype) ==
  CASE Id(wtype) \in {"TYPE_INT32", "TYPE_UINT32", "TYPE_CHAR8", "TYPE_CHAR16"} ->
         Call("OnWord", GetAsBits(wtype), Id(wtype))
    [] Id(wtype) \in {"TYPE_STRING8", "TYPE_BARRAY"} ->
         Call("OnString8", GetString8(wtype), Id(wtype))
    [] Id(wtype) = "TYPE_NULLSTRING8" ->
         Call("OnString8", GetString8(wtype), "TYPE_STRING8")
    [] Id(wtype) = "TYPE_STRING16" ->
         Call("OnString16", GetString16(wtype), Id(wtype))
    [] Id(wtype) = "TYPE_NULLSTRING16" ->
         Call("OnString16", GetString16(wtype), "TYPE_STRING16")
    [] Id(wtype) = "TYPE_UNIX_FD" ->
         Call("OnUnixFd", GetUnixFD(wtype), Id(wtype))
    [] Id(wtype) = "TYPE_WIN_HANDLE" ->
         Call("OnWinHandle", GetWinHandle(wtype), Id(wtype))
    [] OTHER -> NoCall

\* AddMsgElement with the handle case left out of the switch.
AddMsgElement_DropsHandle(wtype) ==
  CASE Id(wtype) \in {"TYPE_INT32", "TYPE_UINT32", "TYPE_CHAR8", "TYPE_CHAR16",
                      "TYPE_NULLSTRING8", "TYPE_NULLSTRING16"} ->
         Call("OnWord", GetAsBits(wtype), Id(wtype))
    [] Id(wtype) \in {"TYPE_STRING8", "TYPE_BARRAY"} ->
         Call("OnString8", GetString8(wtype), Id(wtype))
    [] Id(wtype) = "TYPE_STRING16" ->
         Call("OnString16", GetString16(wtype), Id(wtype))
    [] Id(wtype) = "TYPE_UNIX_FD" ->
         Call("OnUnixFd", GetUnixFD(wtype), Id(wtype))
    [] OTHER -> NoCall

\* The encoder call AddMsgElement makes for wtype; NoCall where it
\* returns false without calling the encoder.
AddMsgElement(wtype) ==
  CASE Id(wtype) = "TYPE_NONE" -> NoCall
    [] Id(wtype) \in {"TYPE_INT32", "TYPE_UINT32", "TYPE_CHAR8", "TYPE_CHAR16"} ->
         Call("OnWord", GetAsBits(wtype), Id(wtype))
    [] Id(wtype) \in {"TYPE_STRING8", "TYPE_BARRAY"} ->
         Call("OnString8", GetString8(wtype), Id(wtype))
    [] Id(wtype) = "TYPE_STRING16" ->
         Call("OnString16", GetString16(wtype), Id(wtype))
    [] Id(wtype) \in {"TYPE_NULLSTRING8", "TYPE_NULLSTRING16"} ->
         Call("OnWord", GetAsBits(wtype), Id(wtype))
    [] Id(wtype) = "TYPE_UNIX_FD" ->
         Call("OnUnixFd", GetUnixFD(wtype), Id(wtype))
    [] Id(wtype) = "TYPE_WIN_HANDLE" ->
         Call("OnWinHandle", GetWinHandle(wtype), Id(wtype))
    [] OTHER -> NoCall

\* ------------------------------------------------------------- state

VARIABLES
  s_pc,        \* where the Send call is: idle, Open, args, Close, GetBuffer, Transport, done
  s_msg_id,    \* Send's msg_id
  s_args,      \* Send's args
  s_ix,        \* Send's loop index
  encoder,     \* the encoder of the Send call
  encFault,    \* how that encoder fails
  s_buf,       \* what GetBuffer returned
  s_ret,       \* Send's result, once done
  calls,       \* the calls Send has made on the encoder and the transport
  s_failAt,    \* Len(calls) right after the first failed encoder step of Send; -1 if none
  rx,          \* the frames the transport holds for the receiving side
  scenario,    \* loopback: the transport returns what Send wrote; peer: what a peer
               \* wrote; repeat: two messages of a peer, for two Receive calls; traced:
               \* what a peer wrote, Receive's calls logged; starved: a transport that
               \* returns empty chunks only; duplex: a Send beside a Receive of what a
               \* peer wrote, over a transport with a direction for each; callbacks:
               \* a handler alone
  r_pc,        \* where the Receive call is: idle, pull, feed, Success, cap, copy, OnMsgIn,
               \* done, or thrown when an exception left it
  handler,     \* Receive's RxHandler: msg_id_ and list_
  decoder,     \* Receive's decoder: whether it terminated, and how
  r_buf,       \* the chunk the transport returned last
  r_empty,     \* the empty chunks the transport has returned
  r_np,        \* Receive's np
  r_args,      \* Receive's args array
  r_ix,        \* Receive's loop index
  disp,        \* the calls Receive has made on the dispatch objects
  r_ret,       \* Receive's result, once done
  cbs,         \* the callbacks the decoder of the Receive call has made on its handler
  r_calls,     \* the Receive calls begun
  r_log        \* in the traced scenario, the calls Receive has made, in order

s_vars == <<s_pc, s_msg_id, s_args, s_ix, encoder, encFault, s_buf, s_ret,
            calls, s_failAt>>

r_vars == <<r_pc, handler, decoder, r_buf, r_empty, r_np, r_args, r_ix, disp,
            r_ret, cbs, r_calls, r_log>>

vars == <<s_vars, rx, scenario, r_vars>>

n_args == Len(s_args)

\* Notes the first failed step.
NoteFail(failed, len) == IF failed /\ s_failAt = -1 THEN len ELSE s_failAt

\* ------------------------------------------------------------- Send

\* A caller invokes Send(msg_id, args, n_args); Send constructs its encoder.
CallSend ==
  /\ s_pc = "idle"
  /\ scenario \in {"loopback", "duplex"}
  /\ \E id \in MsgIds,
        args \in IF scenario = "duplex" THEN DuplexArgLists ELSE ArgLists,
        fault \in IF scenario = "duplex" THEN {[at |-> "none", k |-> 0]} ELSE EncoderFaults :
       /\ s_msg_id' = id
       /\ s_args' = args
       /\ encFault' = fault
  /\ encoder' = NewEncoder
  /\ s_pc' = "Open"
  /\ UNCHANGED <<s_ix, s_buf, s_ret, calls, s_failAt, rx, scenario, r_vars>>

\* A Send that checks the count against the cap before it opens the
\* encoder, as Receive does after decoding.
SendOpen_ChecksCap ==
  /\ s_pc = "Open"
  /\ IF n_args > kMaxNumArgs
       THEN /\ s_pc' = "done"
            /\ s_ret' = -2
            /\ UNCHANGED <<calls, encoder, s_failAt, s_ix>>
       ELSE /\ calls' = Append(calls, Call("Open", <<n_args>>, ""))
            /\ encoder' = IF EncoderOpen(encFault) THEN [encoder EXCEPT !.n = n_args]
                          ELSE encoder
            /\ s_failAt' = NoteFail(~EncoderOpen(encFault), Len(calls'))
            /\ s_ix' = 0
            /\ s_pc' = "args"
            /\ s_ret' = s_ret
  /\ UNCHANGED <<s_msg_id, s_args, encFault, s_buf, rx, scenario, r_vars>>

\* encoder.Open(n_args); the result is not looked at.
SendOpen ==
  /\ s_pc = "Open"
  /\ calls' = Append(calls, Call("Open", <<n_args>>, ""))
  /\ encoder' = IF EncoderOpen(encFault) THEN [encoder EXCEPT !.n = n_args]
                ELSE encoder
  /\ s_failAt' = NoteFail(~EncoderOpen(encFault), Len(calls'))
  /\ s_ix' = 0
  /\ s_pc' = "args"
  /\ UNCHANGED <<s_msg_id, s_args, encFault, s_buf, s_ret, rx, scenario, r_vars>>

\* One round of the loop: AddMsgElement(&encoder, *args[ix]); the result
\* is not looked at.
SendAddMsgElement ==
  /\ s_pc = "args"
  /\ s_ix # n_args
  /\ LET c == AddMsgElement(s_args[s_ix + 1])
         ok == c # NoCall /\ EncoderOnArg(encFault, s_ix + 1)
     IN /\ calls' = IF c = NoCall THEN calls ELSE Append(calls, c)
        /\ encoder' = IF ok THEN [encoder EXCEPT !.items = Append(@, c)]
                      ELSE encoder
        /\ s_failAt' = NoteFail(~ok, Len(calls'))
  /\ s_ix' = s_ix + 1
  /\ UNCHANGED <<s_pc, s_msg_id, s_args, encFault, s_buf, s_ret, rx, scenario, r_vars>>

\* The loop is over: encoder.SetMsgId(msg_id).
SendSetMsgId ==
  /\ s_pc = "args"
  /\ s_ix = n_args
  /\ calls' = Append(calls, Call("SetMsgId", <<s_msg_id>>, ""))
  /\ encoder' = [encoder EXCEPT !.msg_id = s_msg_id]
  /\ s_pc' = "Close"
  /\ UNCHANGED <<s_msg_id, s_args, s_ix, encFault, s_buf, s_ret, s_failAt, rx, scenario, r_vars>>

\* if (!encoder.Close()) return -1;
SendClose ==
  /\ s_pc = "Close"
  /\ calls' = Append(calls, Call("Close", <<>>, ""))
  /\ s_failAt' = NoteFail(~EncoderClose(encFault), Len(calls'))
  /\ IF EncoderClose(encFault)
       THEN s_pc' = "GetBuffer" /\ s_ret' = s_ret
       ELSE s_pc' = "done" /\ s_ret' = -1
  /\ UNCHANGED <<s_msg_id, s_args, s_ix, encoder, encFault, s_buf, rx, scenario, r_vars>>

\* buf = encoder.GetBuffer(&size); if (!buf) return -2;
SendGetBuffer ==
  /\ s_pc = "GetBuffer"
  /\ calls' = Append(calls, Call("GetBuffer", <<>>, ""))
  /\ s_buf' = EncoderGetBuffer(encoder, encFault)
  /\ s_failAt' = NoteFail(s_buf' = <<>>, Len(calls'))
  /\ IF s_buf' # <<>>
       THEN s_pc' = "Transport" /\ s_ret' = s_ret
       ELSE s_pc' = "done" /\ s_ret' = -2
  /\ UNCHANGED <<s_msg_id, s_args, s_ix, encoder, encFault, rx, scenario, r_vars>>

\* Result of the transport's Send: the size written, or its failure value.
TransportSendResults(buf) == {Len(buf), -1}

\* return transport_->Send(buf, size); a transport that wrote the buffer
\* holds its frames for the receiving side, where that side is this same
\* channel (loopback).
SendTransport ==
  /\ s_pc = "Transport"
  /\ calls' = Append(calls, Call("Transport.Send", s_buf, ""))
  /\ \E r \in TransportSendResults(s_buf) :
       /\ s_ret' = r
       /\ rx' = IF r = Len(s_buf) /\ scenario = "loopback" THEN rx \o s_buf ELSE rx
  /\ s_pc' = "done"
  /\ UNCHANGED <<s_msg_id, s_args, s_ix, encoder, encFault, s_buf, s_failAt, scenario,
                 r_vars>>

\* ----------------------------------------------------------- RxHandler

\* RxHandler(): msg_id_(-1), an empty list_.
RxHandler == [msg_id |-> -1, list |-> <<>>]

\* A callback's result: what it returns and the handler it leaves.
Returns(ok, h) == [ok |-> ok, h |-> h, thrown |-> FALSE]

\* A callback left by an exception instead of returning.
Throws(h) == [ok |-> FALSE, h |-> h, thrown |-> TRUE]

push_back(h, w) == [h EXCEPT !.list = Append(@, w)]

\* A start callback that begins the argument list anew.
OnMessageStart_Clears(h, id, n) ==
  IF n < 0 THEN Throws([h EXCEPT !.msg_id = id])
  ELSE Returns(TRUE, [h EXCEPT !.msg_id = id, !.list = <<>>])

\* msg_id_ = id; list_.reserve(n_args); return true. n_args is an int and
\* reserve takes a size_t: a negative count is a size beyond max_size(),
\* and reserve throws std::length_error.
OnMessageStart(h, id, n) ==
  IF n < 0 THEN Throws([h EXCEPT !.msg_id = id])
  ELSE Returns(TRUE, [h EXCEPT !.msg_id = id])

\* OnWord taking a file descriptor's word as an int32.
OnWord_TakesUnixFd(h, bits, type_id) ==
  CASE type_id \in {"TYPE_INT32", "TYPE_UNIX_FD"} -> Returns(TRUE, push_back(h, WireInt(bits)))
    [] type_id = "TYPE_UINT32" -> Returns(TRUE, push_back(h, WireUInt(bits)))
    [] type_id = "TYPE_CHAR8" -> Returns(TRUE, push_back(h, WireChar(bits)))
    [] type_id = "TYPE_CHAR16" -> Returns(TRUE, push_back(h, WireWChar(bits)))
    [] type_id = "TYPE_NULLSTRING8" ->
         Returns(TRUE, push_back(h, WireCStr8(TRUE, <<>>)))
    [] type_id = "TYPE_NULLSTRING16" ->
         Returns(TRUE, push_back(h, WireCStr16(TRUE, <<>>)))
    [] OTHER -> Returns(FALSE, h)

\* OnWord reading a char16 word as a char.
OnWord_Char16AsChar(h, bits, type_id) ==
  CASE type_id = "TYPE_INT32" -> Returns(TRUE, push_back(h, WireInt(bits)))
    [] type_id = "TYPE_UINT32" -> Returns(TRUE, push_back(h, WireUInt(bits)))
    [] type_id = "TYPE_CHAR8" -> Returns(TRUE, push_back(h, WireChar(bits)))
    [] type_id = "TYPE_CHAR16" ->
         Returns(TRUE, push_back(h, WireWChar(Word(LowBytes(bits, 1)))))
    [] type_id = "TYPE_NULLSTRING8" ->
         Returns(TRUE, push_back(h, WireCStr8(TRUE, <<>>)))
    [] type_id = "TYPE_NULLSTRING16" ->
         Returns(TRUE, push_back(h, WireCStr16(TRUE, <<>>)))
    [] OTHER -> Returns(FALSE, h)

OnWord(h, bits, type_id) ==
  CASE type_id = "TYPE_INT32" -> Returns(TRUE, push_back(h, WireInt(bits)))
    [] type_id = "TYPE_UINT32" -> Returns(TRUE, push_back(h, WireUInt(bits)))
    [] type_id = "TYPE_CHAR8" -> Returns(TRUE, push_back(h, WireChar(bits)))
    [] type_id = "TYPE_CHAR16" -> Returns(TRUE, push_back(h, WireWChar(bits)))
    [] type_id = "TYPE_NULLSTRING8" ->
         Returns(TRUE, push_back(h, WireCStr8(TRUE, <<>>)))
    [] type_id = "TYPE_NULLSTRING16" ->
         Returns(TRUE, push_back(h, WireCStr16(TRUE, <<>>)))
    [] OTHER -> Returns(FALSE, h)

\* OnString8 taking bytes with a zero among them for a byte array and
\* any others for a string, whichever of the two tags came with them.
OnString8_ByContent(h, str, type_id) ==
  CASE type_id \in {"TYPE_STRING8", "TYPE_BARRAY"} ->
         IF CStr(str) = str THEN Returns(TRUE, push_back(h, WireCStr8(FALSE, str)))
         ELSE Returns(TRUE, push_back(h, WireByteArray(str)))
    [] OTHER -> Returns(FALSE, h)

OnString8(h, str, type_id) ==
  CASE type_id = "TYPE_STRING8" ->
         Returns(TRUE, push_back(h, WireCStr8(FALSE, str)))
    [] type_id = "TYPE_BARRAY" ->
         Returns(TRUE, push_back(h, WireByteArray(str)))
    [] OTHER -> Returns(FALSE, h)

OnString16(h, str, type_id) ==
  CASE type_id = "TYPE_STRING16" ->
         Returns(TRUE, push_back(h, WireCStr16(FALSE, str)))
    [] OTHER -> Returns(FALSE, h)

MsgId(h) == h.msg_id

\* GetArg that always returns the first element.
GetArg_First(h, ix) == h.list[1]

\* list_[ix], ix counted from 0.
GetArg(h, ix) == h.list[ix + 1]

GetArgCount(h) == Len(h.list)

\* ------------------------------------------------------------- decoder

\* The decoder a Receive constructs: not terminated.
NewDecoder == [done |-> FALSE, ok |-> FALSE]

\* The callback the decoder makes for one frame of the message. A file
\* descriptor or a handle is a fixed-width word to the decoder: RxHandler
\* has no other callback for it.
Callback(h, f) ==
  CASE f.op = "start" -> OnMessageStart(h, f.a[1], f.a[2])
    [] f.op = "OnWord" -> OnWord(h, f.a, f.tag)
    [] f.op = "OnString8" -> OnString8(h, f.a, f.tag)
    [] f.op = "OnString16" -> OnString16(h, f.a, f.tag)
    [] f.op \in {"OnUnixFd", "OnWinHandle"} -> OnWord(h, Word(f.a), f.tag)
    [] OTHER -> Returns(FALSE, h)

\* The frames the decoder makes a callback for, and the callback's name.
CallbackFrames == {"start", "OnWord", "OnString8", "OnString16", "OnUnixFd", "OnWinHandle"}

CallbackName(f) ==
  CASE f.op = "start" -> "OnMessageStart"
    [] f.op \in {"OnUnixFd", "OnWinHandle"} -> "OnWord"
    [] OTHER -> f.op

\* A callback the decoder made: its name, payload and tag, what it
\* returned, whether it threw, and the arguments it appended to list_.
Made(f, h, r) ==
  [op |-> CallbackName(f), a |-> f.a, tag |-> f.tag, ok |-> r.ok, thrown |-> r.thrown,
   added |-> SubSeq(r.h.list, Len(h.list) + 1, Len(r.h.list))]

\* decoder.OnData(buf, received): the decoder and the handler after the
\* frames of the chunk, in order, and the callbacks made. The end mark
\* terminates the decoder with success; a callback that returns false, or
\* a frame that is no part of a message, terminates it with failure;
\* nothing after that is looked at. An exception of a callback leaves
\* OnData as it is thrown.
RECURSIVE OnData(_, _, _)
OnData(dec, h, chunk) ==
  IF chunk = <<>> \/ dec.done
    THEN [dec |-> dec, h |-> h, cbs |-> <<>>, thrown |-> FALSE]
  ELSE LET f == Head(chunk)
           r == Callback(h, f)
           made == IF f.op \in CallbackFrames THEN <<Made(f, h, r)>> ELSE <<>>
       IN IF f.op = "end"
            THEN [dec |-> [done |-> TRUE, ok |-> TRUE], h |-> h, cbs |-> <<>>,
                  thrown |-> FALSE]
          ELSE IF r.thrown
            THEN [dec |-> dec, h |-> r.h, cbs |-> made, thrown |-> TRUE]
          ELSE IF ~r.ok
            THEN [dec |-> [done |-> TRUE, ok |-> FALSE], h |-> r.h, cbs |-> made,
                  thrown |-> FALSE]
          ELSE [OnData(dec, r.h, Tail(chunk)) EXCEPT !.cbs = made \o @]

\* Success() of a decoder that reports every terminated feed as a success.
Success_AnyTermination(dec) == dec.done

\* decoder.Success()
Success(dec) == dec.done /\ dec.ok

\* ------------------------------------------------------------ dispatch

\* The message ids top_dispatch has a handler for.
Registered == {7}

\* top_dispatch->MsgHandler(id): TRUE when it returns a handler.
MsgHandler(id) == id \in Registered

\* What a handler's OnMsgIn may return.
HandlerResults == {0, 5, -1, -2}

\* A call on a dispatch object, and for OnMsgIn what it returned.
DispatchCall(op, id, ch, args, np, res) ==
  [op |-> op, id |-> id, ch |-> ch, args |-> args, np |-> np, res |-> res]

\* A slot of Receive's args array that was never written.
Uninit == [id |-> "UNINIT", v |-> <<>>]

\* ------------------------------------------------------------ Receive

\* A call Receive made, as the traced scenario logs it: the operation, the
\* chunk passed or returned, and for a call that returns a bool the value.
Traced(op, chunk, ret) == [op |-> op, chunk |-> chunk, ret |-> ret]

\* The log with one more call, where calls are logged.
Log(call) == IF scenario = "traced" THEN Append(r_log, call) ELSE r_log

\* A Receive that goes on with the handler of the call before it.
CallReceive_KeepsHandler ==
  /\ r_pc = "idle"
  /\ handler' = handler
  /\ decoder' = NewDecoder
  /\ r_buf' = <<>>
  /\ disp' = <<>>
  /\ cbs' = <<>>
  /\ r_calls' = r_calls + 1
  /\ r_pc' = "pull"
  /\ UNCHANGED <<s_vars, rx, scenario, r_empty, r_np, r_args, r_ix, r_ret, r_log>>

\* A caller invokes Receive(top_dispatch); Receive constructs its handler
\* and its decoder.
CallReceive ==
  /\ r_pc = "idle"
  /\ handler' = RxHandler
  /\ decoder' = NewDecoder
  /\ r_buf' = <<>>
  /\ disp' = <<>>
  /\ cbs' = <<>>
  /\ r_calls' = r_calls + 1
  /\ r_pc' = "pull"
  /\ UNCHANGED <<s_vars, rx, scenario, r_empty, r_np, r_args, r_ix, r_ret, r_log>>

\* buf = transport_->Receive(&received): an empty chunk, or the next
\* frames the transport holds; with none it blocks.
ReceiveTransport ==
  /\ r_pc = "pull"
  /\ \/ /\ r_empty < MaxEmpty \/ scenario = "starved"
        /\ r_empty' = IF scenario = "starved" THEN r_empty ELSE r_empty + 1
        /\ r_buf' = <<>>
        /\ rx' = rx
     \/ /\ \E k \in 1..MaxChunk :
             /\ k <= Len(rx)
             /\ r_buf' = SubSeq(rx, 1, k)
             /\ rx' = SubSeq(rx, k + 1, Len(rx))
        /\ r_empty' = r_empty
  /\ r_log' = Log(Traced("Receive", r_buf', ""))
  /\ r_pc' = "feed"
  /\ UNCHANGED <<s_vars, scenario, handler, decoder, r_np, r_args, r_ix, disp, r_ret,
                 cbs, r_calls>>

\* A Receive that gives up on an empty chunk: it leaves the loop without
\* feeding it.
ReceiveOnData_GivesUp ==
  /\ r_pc = "feed"
  /\ LET r == OnData(decoder, handler, r_buf)
     IN /\ decoder' = r.dec
        /\ handler' = r.h
        /\ cbs' = cbs \o r.cbs
        /\ r_pc' = IF r.thrown THEN "thrown"
                   ELSE IF ~r.dec.done /\ r_buf # <<>> THEN "pull" ELSE "Success"
        /\ r_log' = Log(Traced("OnData", r_buf,
                               IF r.thrown THEN "throw"
                               ELSE IF ~r.dec.done THEN "true" ELSE "false"))
  /\ UNCHANGED <<s_vars, rx, scenario, r_buf, r_empty, r_np, r_args, r_ix, disp, r_ret,
                 r_calls>>

\* A Receive that feeds the first chunk and goes on to Success() whatever
\* OnData returned.
ReceiveOnData_FeedsOnce ==
  /\ r_pc = "feed"
  /\ LET r == OnData(decoder, handler, r_buf)
     IN /\ decoder' = r.dec
        /\ handler' = r.h
        /\ cbs' = cbs \o r.cbs
        /\ r_pc' = IF r.thrown THEN "thrown" ELSE "Success"
        /\ r_log' = Log(Traced("OnData", r_buf,
                               IF r.thrown THEN "throw"
                               ELSE IF ~r.dec.done THEN "true" ELSE "false"))
  /\ UNCHANGED <<s_vars, rx, scenario, r_buf, r_empty, r_np, r_args, r_ix, disp, r_ret,
                 r_calls>>

\* while (decoder.OnData(buf, received)): pull again while it returns true.
ReceiveOnData ==
  /\ r_pc = "feed"
  /\ LET r == OnData(decoder, handler, r_buf)
     IN /\ decoder' = r.dec
        /\ handler' = r.h
        /\ cbs' = cbs \o r.cbs
        /\ r_pc' = IF r.thrown THEN "thrown"
                   ELSE IF ~r.dec.done THEN "pull" ELSE "Success"
        /\ r_log' = Log(Traced("OnData", r_buf,
                               IF r.thrown THEN "throw"
                               ELSE IF ~r.dec.done THEN "true" ELSE "false"))
  /\ UNCHANGED <<s_vars, rx, scenario, r_buf, r_empty, r_np, r_args, r_ix, disp, r_ret,
                 r_calls>>

\* if (!decoder.Success()) return -1;
ReceiveSuccess ==
  /\ r_pc = "Success"
  /\ IF Success(decoder)
       THEN r_pc' = "cap" /\ r_ret' = r_ret
       ELSE r_pc' = "done" /\ r_ret' = -1
  /\ r_log' = Log(Traced("Success", <<>>, IF Success(decoder) THEN "true" ELSE "false"))
  /\ UNCHANGED <<s_vars, rx, scenario, handler, decoder, r_buf, r_empty, r_np, r_args,
                 r_ix, disp, cbs, r_calls>>

\* The cap check with >= for >: a message of kMaxNumArgs arguments is
\* rejected.
ReceiveCapCheck_RejectsAtCap ==
  /\ r_pc = "cap"
  /\ r_np' = GetArgCount(handler)
  /\ IF r_np' >= kMaxNumArgs
       THEN r_pc' = "done" /\ r_ret' = -2
       ELSE r_pc' = "copy" /\ r_ret' = r_ret
  /\ r_ix' = 0
  /\ r_args' = [i \in 1..kMaxNumArgs |-> Uninit]
  /\ r_log' = Log(Traced("GetArgCount", <<>>, ""))
  /\ UNCHANGED <<s_vars, rx, scenario, handler, decoder, r_buf, r_empty, disp, cbs,
                 r_calls>>

\* The cap check returning the value of the decode failure.
ReceiveCapCheck_ReturnsMinusOne ==
  /\ r_pc = "cap"
  /\ r_np' = GetArgCount(handler)
  /\ IF r_np' > kMaxNumArgs
       THEN r_pc' = "done" /\ r_ret' = -1
       ELSE r_pc' = "copy" /\ r_ret' = r_ret
  /\ r_ix' = 0
  /\ r_args' = [i \in 1..kMaxNumArgs |-> Uninit]
  /\ r_log' = Log(Traced("GetArgCount", <<>>, ""))
  /\ UNCHANGED <<s_vars, rx, scenario, handler, decoder, r_buf, r_empty, disp, cbs,
                 r_calls>>

\* A cap check that lets a count of one more than the array holds pass.
ReceiveCapCheck_AllowsOneMore ==
  /\ r_pc = "cap"
  /\ r_np' = GetArgCount(handler)
  /\ IF r_np' > kMaxNumArgs + 1
       THEN r_pc' = "done" /\ r_ret' = -2
       ELSE r_pc' = "copy" /\ r_ret' = r_ret
  /\ r_ix' = 0
  /\ r_args' = [i \in 1..kMaxNumArgs |-> Uninit]
  /\ r_log' = Log(Traced("GetArgCount", <<>>, ""))
  /\ UNCHANGED <<s_vars, rx, scenario, handler, decoder, r_buf, r_empty, disp, cbs,
                 r_calls>>

\* np = handler.GetArgCount(); if (np > kMaxNumArgs) return -2;
ReceiveCapCheck ==
  /\ r_pc = "cap"
  /\ r_np' = GetArgCount(handler)
  /\ IF r_np' > kMaxNumArgs
       THEN r_pc' = "done" /\ r_ret' = -2
       ELSE r_pc' = "copy" /\ r_ret' = r_ret
  /\ r_ix' = 0
  /\ r_args' = [i \in 1..kMaxNumArgs |-> Uninit]
  /\ r_log' = Log(Traced("GetArgCount", <<>>, ""))
  /\ UNCHANGED <<s_vars, rx, scenario, handler, decoder, r_buf, r_empty, disp, cbs,
                 r_calls>>

\* One round of the loop: args[ix] = &handler.GetArg(ix).
ReceiveCopy ==
  /\ r_pc = "copy"
  /\ r_ix # r_np
  /\ r_args' = [r_args EXCEPT ![r_ix + 1] = GetArg(handler, r_ix)]
  /\ r_ix' = r_ix + 1
  /\ UNCHANGED <<s_vars, rx, scenario, r_pc, handler, decoder, r_buf, r_empty, r_np, disp,
                 r_ret, cbs, r_calls, r_log>>

\* The dispatch step without the test of the handler MsgHandler returned.
ReceiveMsgHandler_NoNullTest ==
  /\ r_pc = "copy"
  /\ r_ix = r_np
  /\ disp' = Append(disp, DispatchCall("MsgHandler", MsgId(handler), "", <<>>, 0, 0))
  /\ r_pc' = "OnMsgIn"
  /\ r_log' = Log(Traced("MsgHandler", <<>>, ""))
  /\ UNCHANGED <<s_vars, rx, scenario, handler, decoder, r_buf, r_empty, r_np, r_args,
                 r_ix, r_ret, cbs, r_calls>>

\* A channel that keeps the message id in a member both calls use.
ReceiveMsgHandler_UsesSendId ==
  /\ r_pc = "copy"
  /\ r_ix = r_np
  /\ disp' = Append(disp, DispatchCall("MsgHandler", s_msg_id, "", <<>>, 0, 0))
  /\ IF MsgHandler(s_msg_id)
       THEN r_pc' = "OnMsgIn" /\ r_ret' = r_ret
       ELSE r_pc' = "done" /\ r_ret' = -3
  /\ r_log' = Log(Traced("MsgHandler", <<>>, ""))
  /\ UNCHANGED <<s_vars, rx, scenario, handler, decoder, r_buf, r_empty, r_np, r_args,
                 r_ix, cbs, r_calls>>

\* The loop is over: dispatch = top_dispatch->MsgHandler(handler.MsgId());
\* without a handler, return -3.
ReceiveMsgHandler ==
  /\ r_pc = "copy"
  /\ r_ix = r_np
  /\ disp' = Append(disp, DispatchCall("MsgHandler", MsgId(handler), "", <<>>, 0, 0))
  /\ IF MsgHandler(MsgId(handler))
       THEN r_pc' = "OnMsgIn" /\ r_ret' = r_ret
       ELSE r_pc' = "done" /\ r_ret' = -3
  /\ r_log' = Log(Traced("MsgHandler", <<>>, ""))
  /\ UNCHANGED <<s_vars, rx, scenario, handler, decoder, r_buf, r_empty, r_np, r_args,
                 r_ix, cbs, r_calls>>

\* return dispatch->OnMsgIn(handler.MsgId(), this, args, np);
ReceiveOnMsgIn ==
  /\ r_pc = "OnMsgIn"
  /\ \E res \in HandlerResults :
       /\ disp' = Append(disp, DispatchCall("OnMsgIn", MsgId(handler), "this", r_args,
                                            r_np, res))
       /\ r_ret' = res
  /\ r_pc' = "done"
  /\ r_log' = Log(Traced("OnMsgIn", <<>>, ""))
  /\ UNCHANGED <<s_vars, rx, scenario, handler, decoder, r_buf, r_empty, r_np, r_args,
                 r_ix, cbs, r_calls>>

\* ---------------------------------------------------------------- peer

\* The callbacks a peer's bytes make the decoder emit: those of a
\* well-formed message, a char8 word with its upper bytes set, a string
\* with a zero byte in it, a second message start, and callbacks whose tag
\* the callback does not take.
PeerFrames ==
  << Call("OnWord", <<42, 0, 0, 0>>, "TYPE_INT32"),
     Call("OnWord", <<255, 255, 255, 255>>, "TYPE_UINT32"),
     Call("OnWord", <<65, 1, 2, 3>>, "TYPE_CHAR8"),
     Call("OnWord", <<187, 3, 0, 0>>, "TYPE_CHAR16"),
     Call("OnWord", <<0, 0, 0, 0>>, "TYPE_NULLSTRING8"),
     Call("OnWord", <<0, 0, 0, 0>>, "TYPE_NULLSTRING16"),
     Call("OnString8", <<112, 105>>, "TYPE_STRING8"),
     Call("OnString8", <<112, 0, 105>>, "TYPE_STRING8"),
     Call("OnString8", <<112, 105>>, "TYPE_BARRAY"),
     Call("OnString16", <<955, 960>>, "TYPE_STRING16"),
     Call("start", <<7, 2>>, ""),
     Call("OnWord", <<3, 0, 0, 0>>, "TYPE_UNIX_FD"),
     Call("OnWord", <<0, 0, 0, 0>>, "TYPE_STRING8"),
     Call("OnString8", <<112, 105>>, "TYPE_INT32"),
     Call("OnString16", <<955>>, "TYPE_STRING8"),
     Call("OnWord", <<0, 0, 0, 0>>, "TYPE_NONE") >>

\* A peer's message: the start with an id and a declared count, argument
\* frames, and the end mark or a frame the decoder cannot read.
PeerScripts ==
  { <<Call("start", <<id, decl>>, "")>> \o Generated(PeerFrames, start, stride, len)
      \o <<Call(term, <<>>, "")>> :
      id \in MsgIds, decl \in {0, kMaxNumArgs, MaxArgs}, start \in 1..Len(PeerFrames),
      stride \in 0..MaxStride, len \in 0..MaxArgs, term \in {"end", "bad"} }

\* ------------------------------------------------------- specification

\* The channel after construction, no call begun.
Constructed ==
  /\ s_pc = "idle"
  /\ s_msg_id = 0
  /\ s_args = <<>>
  /\ s_ix = 0
  /\ encoder = NewEncoder
  /\ encFault = [at |-> "none", k |-> 0]
  /\ s_buf = <<>>
  /\ s_ret = 0
  /\ calls = <<>>
  /\ s_failAt = -1
  /\ r_pc = "idle"
  /\ handler = RxHandler
  /\ decoder = NewDecoder
  /\ r_buf = <<>>
  /\ r_empty = 0
  /\ r_np = 0
  /\ r_args = [i \in 1..kMaxNumArgs |-> Uninit]
  /\ r_ix = 0
  /\ disp = <<>>
  /\ r_ret = 0
  /\ cbs = <<>>
  /\ r_calls = 0
  /\ r_log = <<>>

Init ==
  /\ Constructed
  /\ \/ scenario = "loopback" /\ rx = <<>>
     \/ scenario = "peer" /\ rx \in PeerScripts

Next ==
  \/ CallSend
  \/ SendOpen
  \/ SendAddMsgElement
  \/ SendSetMsgId
  \/ SendClose
  \/ SendGetBuffer
  \/ SendTransport
  \/ CallReceive
  \/ ReceiveTransport
  \/ ReceiveOnData
  \/ ReceiveSuccess
  \/ ReceiveCapCheck
  \/ ReceiveCopy
  \/ ReceiveMsgHandler
  \/ ReceiveOnMsgIn

Spec == Init /\ [][Next]_vars

\* ------------------------------------------------ Receive, call after call

\* Short messages of a peer: of no or two arguments, with and without a
\* handler for the id, well ended or not, with a second start in them, and
\* with a negative declared count.
ShortScripts ==
  { <<Call("start", <<id, decl>>, "")>> \o Generated(PeerFrames, start, 1, len)
      \o <<Call(term, <<>>, "")>> :
      id \in MsgIds, decl \in {-1, 0}, start \in {1, 10}, len \in {0, 2},
      term \in {"end", "bad"} }

\* Messages of a peer for a channel that is called more than once: the
\* short ones, and those of MaxArgs frames, accepted or with a rejected
\* callback among them.
SmallScripts ==
  ShortScripts \cup
  { <<Call("start", <<id, decl>>, "")>> \o Generated(PeerFrames, start, 1, MaxArgs)
      \o <<Call(term, <<>>, "")>> :
      id \in MsgIds, decl \in {-1, 0}, start \in {1, 10}, term \in {"end", "bad"} }

\* Receive has returned, or was left by an exception, and its caller is
\* free to call again; how the call ended is kept.
ReturnReceive ==
  /\ scenario = "repeat"
  /\ r_pc \in {"done", "thrown"}
  /\ r_calls < MaxCalls
  /\ r_log' = Append(r_log, Traced("return", IF r_pc = "done" THEN <<r_ret>> ELSE <<>>, r_pc))
  /\ r_pc' = "idle"
  /\ UNCHANGED <<s_vars, rx, scenario, handler, decoder, r_buf, r_empty, r_np, r_args,
                 r_ix, disp, r_ret, cbs, r_calls>>

InitSeq ==
  /\ Constructed
  /\ scenario = "repeat"
  /\ \E first \in SmallScripts, second \in SmallScripts : rx = first \o second

NextSeq ==
  \/ CallReceive
  \/ ReceiveTransport
  \/ ReceiveOnData
  \/ ReceiveSuccess
  \/ ReceiveCapCheck
  \/ ReceiveCopy
  \/ ReceiveMsgHandler
  \/ ReceiveOnMsgIn
  \/ ReturnReceive

SpecSeq == InitSeq /\ [][NextSeq]_vars

\* ------------------------------------------------- Receive, call by call

\* One Receive of a short message, every call it makes logged in order.
InitLoop == Constructed /\ scenario = "traced" /\ rx \in ShortScripts

NextLoop ==
  \/ CallReceive
  \/ ReceiveTransport
  \/ ReceiveOnData
  \/ ReceiveSuccess
  \/ ReceiveCapCheck
  \/ ReceiveCopy
  \/ ReceiveMsgHandler
  \/ ReceiveOnMsgIn

SpecLoop == InitLoop /\ [][NextLoop]_vars

\* ---------------------------------------------- Receive, running to its end

\* One Receive that keeps running, over a transport whose Receive always
\* returns: with a message of a peer, or with empty chunks only and a
\* decoder that asks for more after each.
InitLive ==
  /\ Constructed
  /\ \/ scenario = "peer" /\ rx \in SmallScripts
     \/ scenario = "starved" /\ rx = <<>>

NextLive ==
  \/ CallReceive
  \/ ReceiveTransport
  \/ ReceiveOnData
  \/ ReceiveSuccess
  \/ ReceiveCapCheck
  \/ ReceiveCopy
  \/ ReceiveMsgHandler
  \/ ReceiveOnMsgIn

SpecLive == InitLive /\ [][NextLive]_vars /\ WF_vars(NextLive)

\* ------------------------------------------- Send and Receive, side by side

\* A Send and a Receive of a peer's message on one channel, their steps
\* interleaved in every way.
InitDuplex == Constructed /\ scenario = "duplex" /\ rx \in ShortScripts

NextDuplex == Next

SpecDuplex == InitDuplex /\ [][NextDuplex]_vars

\* ------------------------------------------- RxHandler, callback by callback

\* The handler alone, under callbacks a decoder may make in any order:
\* each argument callback with every tag, a tag that is no TYPE_* value
\* included, and OnMessageStart with counts of 0, above the cap and below 0.
CbTags == { Tags[i] : i \in 1..Len(Tags) } \cup {"TYPE_UNKNOWN"}

CbFrames ==
  { Call("OnWord", <<187, 3, 0, 0>>, t) : t \in CbTags }
    \cup { Call("OnString8", <<112, 105>>, t) : t \in CbTags }
    \cup { Call("OnString8", <<0, 7>>, t) : t \in {"TYPE_STRING8", "TYPE_BARRAY"} }
    \cup { Call("OnString16", <<955, 960>>, t) : t \in CbTags }
    \cup { Call("start", <<7, 0>>, ""), Call("start", <<8, MaxArgs>>, ""),
           Call("start", <<8, -1>>, "") }

\* The callbacks made so far that did not return true.
Rejected == { i \in 1..Len(cbs) : ~cbs[i].ok }

\* One callback on the handler: what it leaves, and the record of it.
HandlerCallback ==
  /\ scenario = "callbacks"
  /\ r_pc = "idle"
  /\ Len(cbs) < MaxCallbacks
  /\ \E f \in CbFrames :
       LET r == Callback(handler, f)
       IN /\ r.ok \/ Cardinality(Rejected) < MaxRejected
          /\ handler' = r.h
          /\ cbs' = Append(cbs, Made(f, handler, r))
          /\ r_pc' = IF r.thrown THEN "thrown" ELSE r_pc
  /\ UNCHANGED <<s_vars, rx, scenario, decoder, r_buf, r_empty, r_np, r_args, r_ix, disp,
                 r_ret, r_calls, r_log>>

InitCb == Constructed /\ scenario = "callbacks" /\ rx = <<>>

NextCb == HandlerCallback

SpecCb == InitCb /\ [][NextCb]_vars


\* =============================================================== claims

\* ----------------------------------------------------------------- C1

\* Every argument of the Send call carries a tag other than none.
AllTagged == \A i \in 1..Len(s_args) : Id(s_args[i]) # "TYPE_NONE"

\* The j-th call of a Send is the one the order asks for at that place.
C1_InPlace(j) ==
  IF j = 1 THEN calls[j] = Call("Open", <<n_args>>, "")
  ELSE IF j <= n_args + 1
    THEN calls[j].op \in OnOps /\ calls[j].tag = Id(s_args[j - 1])
  ELSE IF j = n_args + 2 THEN calls[j] = Call("SetMsgId", <<s_msg_id>>, "")
  ELSE IF j = n_args + 3 THEN calls[j] = Call("Close", <<>>, "")
  ELSE IF j = n_args + 4 THEN calls[j] = Call("GetBuffer", <<>>, "")
  ELSE /\ j = n_args + 5
       /\ calls[j] = Call("Transport.Send", s_buf, "")
       /\ s_buf # <<>>

\* C1: for a Send whose arguments all carry a tag other than none, the
\* calls made so far are, in this order, Open(count), one on_* call per
\* argument in argument order (carrying that argument's tag),
\* SetMsgId(msg_id), Close, GetBuffer and Transport.Send with the buffer
\* GetBuffer returned; and a Send that ends without Close failing or
\* GetBuffer returning no buffer has made all count + 5 of them.
C1_SendCallOrder ==
  AllTagged =>
    /\ \A j \in 1..Len(calls) : C1_InPlace(j)
    /\ (s_pc = "done" /\ encFault.at \notin {"Close", "GetBuffer"})
         => Len(calls) = n_args + 5

\* The scenario Send(7, [int32(42), string8("ping")]) has handed its
\* buffer to the transport after Open, OnWord, OnString8, SetMsgId, Close,
\* GetBuffer.
C1_Witness ==
  /\ s_pc = "done"
  /\ s_msg_id = 7
  /\ s_args = ScenarioArgs
  /\ Len(calls) = 7
  /\ calls[2].op = "OnWord" /\ calls[3].op = "OnString8"
  /\ calls[4] = Call("SetMsgId", <<7>>, "")
  /\ calls[7].op = "Transport.Send"
  /\ s_ret = Len(s_buf)

\* ----------------------------------------------------------------- C2

\* C2 (as claimed): once a step of Send has failed (Open returned false,
\* an argument's on_* step failed, Close returned false or GetBuffer gave
\* no buffer), Send has ended with a negative result and has made no call
\* after the failed step: none for the remaining arguments and none on the
\* transport.
C2_SendAbortsAtFirstFailure ==
  s_failAt # -1 =>
    /\ s_pc = "done"
    /\ s_ret < 0
    /\ Len(calls) = s_failAt

\* ----------------------------------------------------------------- C3

\* The on_* step of some argument of the Send call failed: its tag is one
\* AddMsgElement makes no call for, or the encoder returned false.
ArgRejected ==
  \E i \in 1..Len(s_args) :
    Id(s_args[i]) = "TYPE_NONE" \/ ~EncoderOnArg(encFault, i)

\* C3 (as claimed): a Send that ends after the encoder rejected an
\* argument, with no other encoder call failing, returns a negative
\* sentinel of that failure's own, different from the one for a missing
\* buffer.
C3_SendRejectionHasOwnSentinel ==
  (s_pc = "done" /\ ArgRejected /\ encFault.at \in {"none", "arg"})
    => (s_ret < 0 /\ s_ret # -2)

\* ------------------------------------------------- the paths of Receive

\* The decoder terminated, and how the Receive call went on from there.
Terminated == decoder.done
DecodeFailed == Terminated /\ ~decoder.ok
CapExceeded == Terminated /\ decoder.ok /\ Len(handler.list) > kMaxNumArgs
Unroutable ==
  /\ Terminated /\ decoder.ok /\ Len(handler.list) <= kMaxNumArgs
  /\ handler.msg_id \notin Registered
Routable ==
  /\ Terminated /\ decoder.ok /\ Len(handler.list) <= kMaxNumArgs
  /\ handler.msg_id \in Registered

\* The OnMsgIn calls Receive has made.
OnMsgInCalls == { i \in 1..Len(disp) : disp[i].op = "OnMsgIn" }

\* ----------------------------------------------------------------- C4

\* C4: when the decoder has terminated without success, Receive has made
\* no call on the dispatch objects (neither MsgHandler nor OnMsgIn),
\* whatever the handler accumulated, and once it has returned its result
\* is -1.
C4_DecodeFailureNeverDispatches ==
  DecodeFailed =>
    /\ disp = <<>>
    /\ r_pc \in {"Success", "done"}
    /\ (r_pc = "done" => r_ret = -1)

\* A Receive returned -1 after a failed decode that had accumulated two
\* arguments and the id of a registered handler.
C4_Witness ==
  /\ r_pc = "done"
  /\ DecodeFailed
  /\ Len(handler.list) >= 2
  /\ handler.msg_id \in Registered
  /\ r_ret = -1

\* ----------------------------------------------------------------- C5

\* C5: a Receive that ended after a successful decode of more than
\* kMaxNumArgs arguments returned -2 and made no call on the dispatch
\* objects; one that ended after a successful decode of 0..kMaxNumArgs
\* arguments went past the cap check and asked MsgHandler for a handler.
C5_CapEnforcedOnReceive ==
  r_pc = "done" =>
    /\ CapExceeded => (r_ret = -2 /\ disp = <<>>)
    /\ (Unroutable \/ Routable) =>
         (Len(disp) >= 1 /\ disp[1].op = "MsgHandler" /\ r_np = Len(handler.list))

\* A Receive returned -2 for a decoded message of kMaxNumArgs + 1
\* arguments with the id of a registered handler.
C5_Witness ==
  /\ r_pc = "done"
  /\ CapExceeded
  /\ Len(handler.list) = kMaxNumArgs + 1
  /\ handler.msg_id \in Registered
  /\ r_ret = -2

\* ----------------------------------------------------------------- C6

\* C6: a Receive that ended after a successful decode within the cap of a
\* message id MsgHandler has no handler for returned -3 and made no
\* OnMsgIn call.
C6_UnroutableNotDispatched ==
  (r_pc = "done" /\ Unroutable) =>
    /\ r_ret = -3
    /\ OnMsgInCalls = {}
    /\ disp = <<DispatchCall("MsgHandler", handler.msg_id, "", <<>>, 0, 0)>>

\* A Receive returned -3 for a two-argument message with id 8.
C6_Witness ==
  /\ r_pc = "done"
  /\ Unroutable
  /\ handler.msg_id = 8
  /\ Len(handler.list) = 2
  /\ r_ret = -3

\* ----------------------------------------------------------------- C7

\* C7 (as claimed): the result of a Receive that has returned identifies
\* the path taken: it is -1 exactly after a decode failure, -2 exactly
\* after the cap was exceeded, -3 exactly for an unroutable id.
C7_ResultIdentifiesPath ==
  r_pc = "done" =>
    /\ (r_ret = -1) <=> DecodeFailed
    /\ (r_ret = -2) <=> CapExceeded
    /\ (r_ret = -3) <=> Unroutable

\* C7 (amended): the three failure paths return the pairwise distinct
\* results -1, -2 and -3, a dispatched message returns what OnMsgIn
\* returned, and a result other than -1, -2, -3 is that of a dispatched
\* message.
C7_FailureResultsDistinct ==
  r_pc = "done" =>
    /\ DecodeFailed => r_ret = -1
    /\ CapExceeded => r_ret = -2
    /\ Unroutable => r_ret = -3
    /\ Routable => (OnMsgInCalls # {} /\ r_ret = disp[Len(disp)].res)
    /\ r_ret \notin {-1, -2, -3} => Routable

\* A dispatched message whose handler returned -1: the Receive call
\* returned -1 without a decode failure.
C7_Witness ==
  /\ r_pc = "done"
  /\ Routable
  /\ OnMsgInCalls # {}
  /\ r_ret = -1

\* ----------------------------------------------------------------- C8

\* C8: a Receive that ended after a successful decode within the cap of a
\* message id with a handler made exactly two dispatch calls: MsgHandler
\* with the decoded id, then one OnMsgIn with the same id, the channel
\* itself, the accumulated arguments in accumulation order in the first
\* np slots, and np their count; and it returned what OnMsgIn returned.
C8_DispatchesDecodedMessage ==
  (r_pc = "done" /\ Routable) =>
    /\ Len(disp) = 2
    /\ disp[1] = DispatchCall("MsgHandler", handler.msg_id, "", <<>>, 0, 0)
    /\ disp[2].op = "OnMsgIn"
    /\ disp[2].id = handler.msg_id
    /\ disp[2].ch = "this"
    /\ disp[2].np = Len(handler.list)
    /\ SubSeq(disp[2].args, 1, disp[2].np) = handler.list
    /\ r_ret = disp[2].res

\* A Receive dispatched a message of three different arguments and
\* returned the handler's 5.
C8_Witness ==
  /\ r_pc = "done"
  /\ Routable
  /\ Len(disp) = 2
  /\ disp[2].np = 3
  /\ disp[2].args[1] # disp[2].args[2]
  /\ disp[2].args[2] # disp[2].args[3]
  /\ r_ret = 5

\* ----------------------------------------------------------------- C9

\* The tags RxHandler has a callback case for.
RoundTripTags ==
  {"TYPE_INT32", "TYPE_UINT32", "TYPE_CHAR8", "TYPE_CHAR16", "TYPE_NULLSTRING8",
   "TYPE_NULLSTRING16", "TYPE_STRING8", "TYPE_BARRAY", "TYPE_STRING16"}

AllRoundTrip == \A i \in 1..Len(s_args) : Id(s_args[i]) \in RoundTripTags

\* A Receive has returned on the bytes of a Send of at most kMaxNumArgs
\* arguments through an encoder that accepted every call.
RoundTripDone ==
  /\ scenario = "loopback"
  /\ encFault.at = "none"
  /\ Len(s_args) <= kMaxNumArgs
  /\ r_pc = "done"

\* The message Send was given is the one that reached Receive's handler
\* and, for an id with a handler, OnMsgIn.
Reproduced ==
  /\ handler.msg_id = s_msg_id
  /\ handler.list = s_args
  /\ s_msg_id \in Registered =>
       /\ Len(disp) = 2
       /\ disp[2].op = "OnMsgIn"
       /\ disp[2].id = s_msg_id
       /\ disp[2].np = Len(s_args)
       /\ SubSeq(disp[2].args, 1, disp[2].np) = s_args

\* C9 (as claimed): Send followed by Receive reproduces the message id
\* and the tags and values of every argument list of 0..kMaxNumArgs
\* arguments drawn from every tag.
C9_RoundTripEveryTag == RoundTripDone => Reproduced

\* C9 (amended): Send followed by Receive reproduces the message id and
\* the tags and values of every argument list of 0..kMaxNumArgs arguments
\* drawn from the tags int32, uint32, char8, char16, null-string-8,
\* null-string-16, string-8, byte-array and string-16.
C9_RoundTrip == (RoundTripDone /\ AllRoundTrip) => Reproduced

\* A message of kMaxNumArgs arguments of at least six different tags went
\* from Send to OnMsgIn.
C9_Witness ==
  /\ RoundTripDone
  /\ AllRoundTrip
  /\ Len(s_args) = kMaxNumArgs
  /\ Cardinality({ Id(s_args[i]) : i \in 1..Len(s_args) }) >= 6
  /\ Len(disp) = 2
  /\ disp[2].np = kMaxNumArgs

\* ---------------------------------------------------------------- C10

NullTags == {"TYPE_NULLSTRING8", "TYPE_NULLSTRING16"}

\* C10: Send passes a null-string argument to the encoder's OnWord with
\* the argument's null-string tag, and no other call carries such a tag;
\* after a successful decode of what an all-accepting encoder produced
\* from arguments RxHandler has cases for, every null-string and string
\* argument has its own tag in the handler's list: a null-string-8 is
\* there with tag null-string-8, an empty string-8 with tag string-8.
C10_NullStringKeepsItsTag ==
  /\ \A j \in 1..Len(calls) : calls[j].tag \in NullTags => calls[j].op = "OnWord"
  /\ AllTagged =>
       \A i \in 1..Len(s_args) :
         (i + 1 <= Len(calls) /\ Id(s_args[i]) \in NullTags) =>
           calls[i + 1] = Call("OnWord", <<0, 0, 0, 0>>, Id(s_args[i]))
  /\ ( /\ scenario = "loopback"
       /\ encFault.at = "none"
       /\ AllRoundTrip
       /\ Terminated /\ decoder.ok )
     => \A i \in 1..Len(s_args) :
          Id(s_args[i]) \in NullTags \cup {"TYPE_STRING8", "TYPE_STRING16"} =>
            Id(handler.list[i]) = Id(s_args[i])

\* A null-string-8 and an empty string-8 argument of one message were
\* decoded: both without bytes, with different tags.
C10_Witness ==
  /\ scenario = "loopback"
  /\ Terminated /\ decoder.ok
  /\ \E i, j \in 1..Len(handler.list) :
       /\ s_args[i] = WireCStr8(TRUE, <<>>)
       /\ s_args[j] = WireCStr8(FALSE, <<>>)
       /\ handler.list[i] = [id |-> "TYPE_NULLSTRING8", v |-> <<>>]
       /\ handler.list[j] = [id |-> "TYPE_STRING8", v |-> <<>>]

\* ---------------------------------------------------------------- C17

\* C17: the cap on the number of arguments is enforced by Receive only. A
\* Send with more than kMaxNumArgs arguments, each with a tag and no
\* encoder failure, that has returned was not cut short by the count: it
\* opened the encoder with that count, made one encoder call for every
\* argument, then SetMsgId, Close and GetBuffer, handed a buffer holding
\* every argument to the transport, and returned the transport's result.
\* A Receive whose decoder succeeded with more than kMaxNumArgs arguments
\* accumulated has, once returned, returned -2 without dispatching.
C17_CapOnlyOnReceive ==
  /\ (s_pc = "done" /\ n_args > kMaxNumArgs /\ encFault.at = "none" /\ AllTagged) =>
       /\ Len(calls) = n_args + 5
       /\ calls[1] = Call("Open", <<n_args>>, "")
       /\ \A j \in 1..n_args : calls[j + 1] = AddMsgElement(s_args[j])
       /\ calls[n_args + 2] = Call("SetMsgId", <<s_msg_id>>, "")
       /\ calls[n_args + 5] = Call("Transport.Send", s_buf, "")
       /\ Len(s_buf) = n_args + 2
       /\ \A j \in 1..n_args : s_buf[j + 1] = AddMsgElement(s_args[j])
       /\ s_ret \in TransportSendResults(s_buf)
  /\ (r_pc = "done" /\ Success(decoder) /\ GetArgCount(handler) > kMaxNumArgs) =>
       r_ret = -2 /\ disp = <<>>

\* A Send of nine arguments was written by the transport, and the Receive
\* of that same message was rejected for its count.
C17_Witness ==
  /\ scenario = "loopback"
  /\ s_pc = "done" /\ n_args > kMaxNumArgs /\ encFault.at = "none" /\ AllTagged
  /\ s_ret = Len(s_buf)
  /\ r_pc = "done" /\ GetArgCount(handler) = n_args /\ r_ret = -2

\* ---------------------------------------------------------------- C19

\* C19: Receive stays inside its array of kMaxNumArgs slots. While it is
\* in the copy loop np is the handler's argument count and at most
\* kMaxNumArgs, and whenever a round of the loop is to run its index is
\* below np, below the handler's argument count and a slot of the array;
\* the slots below the index are written, the others are not. Every
\* OnMsgIn call has a count in 0..kMaxNumArgs and an array whose first
\* count slots, and no others, hold the handler's arguments.
C19_CopyStaysInArray ==
  /\ r_pc = "copy" =>
       /\ r_np = GetArgCount(handler)
       /\ r_np <= kMaxNumArgs
       /\ r_ix <= r_np
       /\ DOMAIN r_args = 1..kMaxNumArgs
       /\ r_ix # r_np =>
            /\ r_ix < r_np
            /\ r_ix < GetArgCount(handler)
            /\ r_ix + 1 \in DOMAIN r_args
       /\ \A k \in 1..kMaxNumArgs : (r_args[k] = Uninit) <=> (k > r_ix)
  /\ \A i \in OnMsgInCalls :
       /\ disp[i].np \in 0..kMaxNumArgs
       /\ disp[i].np = GetArgCount(handler)
       /\ \A k \in 1..kMaxNumArgs :
            IF k <= disp[i].np THEN disp[i].args[k] = GetArg(handler, k - 1)
            ELSE disp[i].args[k] = Uninit

\* A handler was invoked with the array full: eight arguments, eight
\* written slots.
C19_Witness ==
  \E i \in OnMsgInCalls :
    /\ disp[i].np = kMaxNumArgs
    /\ \A k \in 1..kMaxNumArgs : disp[i].args[k] # Uninit

\* ---------------------------------------------------------------- C20

\* The argument callbacks of the Receive call that returned true, and the
\* counts its OnMessageStart callbacks declared.
AcceptedArgs == { i \in 1..Len(cbs) : cbs[i].op # "OnMessageStart" /\ cbs[i].ok }
DeclaredCounts == { cbs[i].a[2] : i \in { j \in 1..Len(cbs) : cbs[j].op = "OnMessageStart" } }

\* C20: the handler's argument count is the number of argument callbacks
\* of the call that returned true, whatever count the message declared,
\* however many OnMessageStart callbacks there were and whatever
\* callbacks were rejected; that number is the count Receive checks and
\* passes on. After a successful decode a Receive that has returned
\* returned -2 without dispatching when more than kMaxNumArgs argument
\* callbacks were accepted, and otherwise asked for the handler, each
\* OnMsgIn call getting that number as its count.
C20_CountIsAcceptedCallbacks ==
  /\ r_pc # "idle" => GetArgCount(handler) = Cardinality(AcceptedArgs)
  /\ r_pc \in {"copy", "OnMsgIn"} => r_np = Cardinality(AcceptedArgs)
  /\ (r_pc = "done" /\ Success(decoder)) =>
       /\ r_np = Cardinality(AcceptedArgs)
       /\ IF Cardinality(AcceptedArgs) > kMaxNumArgs
            THEN r_ret = -2 /\ disp = <<>>
            ELSE /\ disp # <<>>
                 /\ disp[1].op = "MsgHandler"
                 /\ \A i \in OnMsgInCalls : disp[i].np = Cardinality(AcceptedArgs)

\* A message that declared no more than kMaxNumArgs arguments and
\* delivered nine accepted ones was rejected with -2.
C20_Witness ==
  /\ r_pc = "done" /\ Success(decoder)
  /\ \A n \in DeclaredCounts : n <= kMaxNumArgs
  /\ DeclaredCounts # {}
  /\ Cardinality(AcceptedArgs) > kMaxNumArgs
  /\ r_ret = -2

\* A message that declared nine arguments and delivered fewer was
\* dispatched with the delivered count.
C20_DeclaredNineDispatched ==
  /\ r_pc = "done" /\ Success(decoder)
  /\ \E n \in DeclaredCounts : n > kMaxNumArgs
  /\ \E i \in OnMsgInCalls : disp[i].np = Cardinality(AcceptedArgs) /\ disp[i].np < kMaxNumArgs

\* A message with a second OnMessageStart after an accepted argument was
\* dispatched with that argument.
C20_RestartKeepsArguments ==
  /\ r_pc = "done" /\ Success(decoder)
  /\ \E i, j \in 1..Len(cbs) :
       i < j /\ cbs[i].op # "OnMessageStart" /\ cbs[i].ok /\ cbs[j].op = "OnMessageStart"
  /\ \E i \in OnMsgInCalls : disp[i].np = Cardinality(AcceptedArgs) /\ disp[i].np > 0

\* ---------------------------------------------------------------- C14

\* The tags OnWord has a case for.
WordTags ==
  {"TYPE_INT32", "TYPE_UINT32", "TYPE_CHAR8", "TYPE_CHAR16", "TYPE_NULLSTRING8",
   "TYPE_NULLSTRING16"}

\* The step is one callback of the given name on the handler.
IsCallback(op) == Len(cbs') = Len(cbs) + 1 /\ cbs'[Len(cbs')].op = op

\* The step appended exactly one value, with the given tag, to list_ and
\* left the rest of the handler as it was.
AppendedOne(tag) ==
  /\ Len(handler'.list) = Len(handler.list) + 1
  /\ SubSeq(handler'.list, 1, Len(handler.list)) = handler.list
  /\ Id(handler'.list[Len(handler'.list)]) = tag
  /\ handler'.msg_id = handler.msg_id

\* C14: an OnWord callback whose tag is int32, uint32, char8, char16,
\* null-string-8 or null-string-16 returns true and appends exactly one
\* value of that tag to the end of the handler's list; an OnWord callback
\* with any other tag (string-8, byte-array, string-16, unix-fd,
\* win-handle, none, or no tag at all) returns false and leaves the list
\* and the message id as they were.
C14_OnWord ==
  [][ IsCallback("OnWord") =>
        LET c == cbs'[Len(cbs')]
        IN IF c.tag \in WordTags
             THEN c.ok /\ ~c.thrown /\ AppendedOne(c.tag)
             ELSE ~c.ok /\ ~c.thrown /\ handler' = handler ]_vars

\* OnWord appended a null-string-8 and a char16 and rejected a unix-fd.
C14_Witness ==
  /\ scenario = "callbacks"
  /\ \E i, j, k \in 1..Len(cbs) :
       /\ cbs[i].op = "OnWord" /\ cbs[i].tag = "TYPE_NULLSTRING8" /\ cbs[i].ok
       /\ cbs[j].op = "OnWord" /\ cbs[j].tag = "TYPE_CHAR16" /\ cbs[j].ok
       /\ cbs[k].op = "OnWord" /\ cbs[k].tag = "TYPE_UNIX_FD" /\ ~cbs[k].ok
  /\ GetArgCount(handler) = 2

\* ---------------------------------------------------------------- C15

\* C15: the string callbacks choose the variant by the tag alone. An
\* OnString8 callback with tag string-8 returns true and appends one
\* string-8 value, with tag byte-array it returns true and appends one
\* byte-array value holding the bytes it got, whatever the bytes are; an
\* OnString16 callback with tag string-16 returns true and appends one
\* string-16 value; with any other tag either callback returns false and
\* leaves the handler as it was.
C15_StringVariantByTag ==
  [][ /\ IsCallback("OnString8") =>
           LET c == cbs'[Len(cbs')]
           IN IF c.tag = "TYPE_STRING8"
                THEN c.ok /\ AppendedOne("TYPE_STRING8")
              ELSE IF c.tag = "TYPE_BARRAY"
                THEN /\ c.ok /\ AppendedOne("TYPE_BARRAY")
                     /\ handler'.list[Len(handler'.list)].v = c.a
              ELSE ~c.ok /\ ~c.thrown /\ handler' = handler
      /\ IsCallback("OnString16") =>
           LET c == cbs'[Len(cbs')]
           IN IF c.tag = "TYPE_STRING16"
                THEN c.ok /\ AppendedOne("TYPE_STRING16")
                ELSE ~c.ok /\ ~c.thrown /\ handler' = handler ]_vars

\* The same bytes came once as string-8 and once as byte-array and were
\* appended as two values of different tags, and an OnString16 callback
\* with tag string-8 was rejected.
C15_Witness ==
  /\ scenario = "callbacks"
  /\ \E i, j, k \in 1..Len(cbs) :
       /\ cbs[i].op = "OnString8" /\ cbs[i].tag = "TYPE_STRING8" /\ cbs[i].ok
       /\ cbs[j].op = "OnString8" /\ cbs[j].tag = "TYPE_BARRAY" /\ cbs[j].ok
       /\ cbs[i].a = cbs[j].a
       /\ Id(cbs[i].added[1]) = "TYPE_STRING8" /\ Id(cbs[j].added[1]) = "TYPE_BARRAY"
       /\ cbs[k].op = "OnString16" /\ cbs[k].tag = "TYPE_STRING8" /\ ~cbs[k].ok
  /\ GetArgCount(handler) = 2

\* ---------------------------------------------------------------- C16

\* The values the argument callbacks of a log that returned true
\* produced, in the order of the callbacks.
RECURSIVE Produced(_)
Produced(log) ==
  IF log = <<>> THEN <<>>
  ELSE IF Head(log).op # "OnMessageStart" /\ Head(log).ok
    THEN Head(log).added \o Produced(Tail(log))
  ELSE Produced(Tail(log))

\* The id of the last OnMessageStart of a log, -1 when it has none.
RECURSIVE LastStartId(_)
LastStartId(log) ==
  IF log = <<>> THEN -1
  ELSE IF log[Len(log)].op = "OnMessageStart" THEN log[Len(log)].a[1]
  ELSE LastStartId(SubSeq(log, 1, Len(log) - 1))

\* The part of C16 about the list and the id: after any callbacks the
\* handler's list is what the accepted argument callbacks produced, in
\* their order, one value each, its id is that of the last
\* OnMessageStart, -1 without one, and no OnMessageStart added a value.
C16_ListAndIdFollowCallbacks ==
  /\ handler.list = Produced(cbs)
  /\ \A i \in 1..GetArgCount(handler) : GetArg(handler, i - 1) = Produced(cbs)[i]
  /\ MsgId(handler) = LastStartId(cbs)
  /\ \A i \in 1..Len(cbs) :
       /\ cbs[i].op = "OnMessageStart" => cbs[i].added = <<>>
       /\ (cbs[i].op # "OnMessageStart" /\ cbs[i].ok) => Len(cbs[i].added) = 1
       /\ ~cbs[i].ok => cbs[i].added = <<>>

\* C16: the handler is changed by the callbacks only, in their order:
\* after any sequence of callbacks GetArg(i) is the value of the i-th
\* argument callback that returned true, MsgId() is the id of the most
\* recent OnMessageStart (-1 if there was none), and every
\* OnMessageStart returned true and left the arguments as they were.
C16_AccumulatorFollowsCallbacks ==
  /\ C16_ListAndIdFollowCallbacks
  /\ \A i \in 1..Len(cbs) :
       cbs[i].op = "OnMessageStart" => cbs[i].ok /\ ~cbs[i].thrown

\* An argument, a second OnMessageStart and another argument: both
\* arguments are in the list in that order, under the second id.
C16_RestartBetweenArguments ==
  /\ Len(cbs) = 3
  /\ cbs[1].op = "OnWord" /\ cbs[1].ok
  /\ cbs[2].op = "OnMessageStart" /\ cbs[2].ok
  /\ cbs[3].op = "OnString8" /\ cbs[3].ok
  /\ handler.list = cbs[1].added \o cbs[3].added
  /\ MsgId(handler) = cbs[2].a[1]

\* ---------------------------------------------------------------- C11

\* C11: nothing of a message is carried from one Receive call to the
\* next. Whatever calls came before and however they ended, a call has
\* made no callback yet exactly with an empty list and the id -1, at
\* every point of the call the handler's list and id are what the
\* callbacks of this same call produced, and every dispatch call of the
\* call carries that id and, for OnMsgIn, those arguments.
C11_NoStateAcrossCalls ==
  r_pc # "idle" =>
    /\ cbs = <<>> => handler = RxHandler
    /\ handler.list = Produced(cbs)
    /\ MsgId(handler) = LastStartId(cbs)
    /\ \A i \in 1..Len(disp) :
         /\ disp[i].id = LastStartId(cbs)
         /\ disp[i].op = "OnMsgIn" =>
              /\ disp[i].np = Len(Produced(cbs))
              /\ \A k \in 1..disp[i].np : disp[i].args[k] = Produced(cbs)[k]

\* After a call that was rejected for its nine arguments, a second call
\* dispatched a message of two arguments.
C11_Witness ==
  /\ scenario = "repeat"
  /\ r_calls = 2
  /\ r_log = <<Traced("return", <<-2>>, "done")>>
  /\ r_pc = "done"
  /\ \E i \in OnMsgInCalls : disp[i].np = 2 /\ disp[i].id = 7

\* ---------------------------------------------------------------- C12

\* The places of the log with a call of the given name.
LogOf(op) == { i \in 1..Len(r_log) : r_log[i].op = op }

\* The calls Receive makes once the decode loop is over.
AfterLoop == {"Success", "GetArgCount", "MsgHandler", "OnMsgIn"}

\* C12: the decode loop of Receive. Every chunk the transport returned,
\* an empty one too, is the argument of the OnData call that follows it
\* at once, or Receive is about to make that call, and every OnData call
\* is made with the chunk pulled just before it; a chunk is pulled
\* exactly at the start of the call and next after an OnData that
\* returned true; once an OnData has not returned true there is no later
\* pull or feed; and Success(), the count check and the dispatch calls
\* come only after an OnData that returned false.
C12_DecodeLoop ==
  /\ \A i \in LogOf("Receive") :
       /\ IF i = Len(r_log) THEN r_pc = "feed" /\ r_buf = r_log[i].chunk
          ELSE r_log[i + 1].op = "OnData" /\ r_log[i + 1].chunk = r_log[i].chunk
       /\ i = 1 \/ (r_log[i - 1].op = "OnData" /\ r_log[i - 1].ret = "true")
  /\ \A i \in LogOf("OnData") :
       /\ i > 1 /\ r_log[i - 1].op = "Receive" /\ r_log[i - 1].chunk = r_log[i].chunk
       /\ r_log[i].ret = "true" =>
            IF i = Len(r_log) THEN r_pc = "pull" ELSE r_log[i + 1].op = "Receive"
       /\ r_log[i].ret = "false" =>
            /\ IF i = Len(r_log) THEN r_pc = "Success" ELSE r_log[i + 1].op = "Success"
            /\ \A j \in i + 1..Len(r_log) : r_log[j].op \in AfterLoop
       /\ r_log[i].ret = "throw" => i = Len(r_log) /\ r_pc = "thrown"
  /\ \A j \in 1..Len(r_log) :
       r_log[j].op \in AfterLoop =>
         \E i \in LogOf("OnData") : i < j /\ r_log[i].ret = "false"
  /\ (scenario = "traced" /\ r_pc \in {"Success", "cap", "copy", "OnMsgIn", "done"}) =>
       \E i \in LogOf("OnData") : r_log[i].ret = "false"

\* A Receive pulled three chunks, an empty one among them, fed each, the
\* third feed returned false, and it went on to Success(), the count
\* check and the dispatch.
C12_Witness ==
  /\ scenario = "traced"
  /\ r_pc = "done"
  /\ Len(r_log) = 10
  /\ \E i \in {1, 3} : r_log[i].chunk = <<>>
  /\ r_log[4].ret = "true"
  /\ r_log[5].op = "Receive" /\ r_log[5].chunk # <<>>
  /\ r_log[6] = Traced("OnData", r_log[5].chunk, "false")
  /\ r_log[7].op = "Success"
  /\ r_log[8].op = "GetArgCount"
  /\ r_log[9].op = "MsgHandler"
  /\ r_log[10].op = "OnMsgIn"

\* ---------------------------------------------------------------- C13

\* Receive has returned one result, that of the one path it took.
ReturnedOneOutcome ==
  /\ r_pc = "done"
  /\ \/ DecodeFailed /\ r_ret = -1 /\ disp = <<>>
     \/ CapExceeded /\ r_ret = -2 /\ disp = <<>>
     \/ Unroutable /\ r_ret = -3 /\ OnMsgInCalls = {}
     \/ Routable /\ \E i \in OnMsgInCalls : r_ret = disp[i].res

\* C13: a Receive that keeps running, over a transport whose Receive
\* always returns. Once OnData has returned false the call goes on to
\* return, with the result of exactly one of decode failure, cap
\* exceeded, unroutable id and the handler's result; a message of a peer
\* gets it that far unless a callback throws; as long as OnData has not
\* returned false the call is in its loop and has not returned; and
\* over a transport that returns empty chunks only it pulls and feeds
\* again and again.
C13_ReceiveTermination ==
  /\ decoder.done ~> ReturnedOneOutcome
  /\ (scenario = "peer" /\ r_pc = "pull") ~> (decoder.done \/ r_pc = "thrown")
  /\ [](~decoder.done => r_pc \in {"idle", "pull", "feed", "thrown"})
  /\ [](scenario = "starved" => r_pc # "done")
  /\ (scenario = "starved") ~> (r_pc = "pull")
  /\ (scenario = "starved" /\ r_pc = "pull") ~> (r_pc = "feed")
  /\ (scenario = "starved" /\ r_pc = "feed") ~> (r_pc = "pull")

\* A Receive that was given an empty chunk on the way has returned its
\* handler's result.
C13_Witness ==
  /\ scenario = "peer"
  /\ r_empty > 0
  /\ Routable
  /\ ReturnedOneOutcome
  /\ r_ret = 5

\* A Receive over the transport of empty chunks is in its loop, having
\* fed an empty chunk.
C13_Starved ==
  /\ scenario = "starved"
  /\ r_calls = 1
  /\ r_pc = "pull"
  /\ r_buf = <<>>
  /\ ~decoder.done

\* ---------------------------------------------------------------- C18

\* The encoder calls the arguments of a Send running alone make.
RECURSIVE ElementCalls(_)
ElementCalls(args) ==
  IF args = <<>> THEN <<>>
  ELSE IF AddMsgElement(Head(args)) = NoCall THEN ElementCalls(Tail(args))
  ELSE <<AddMsgElement(Head(args))>> \o ElementCalls(Tail(args))

\* The buffer and the calls of the Send running alone, all encoder calls
\* accepted.
SendAloneBuffer ==
  <<Call("start", <<s_msg_id, n_args>>, "")>> \o ElementCalls(s_args)
    \o <<Call("end", <<>>, "")>>

SendAloneCalls ==
  <<Call("Open", <<n_args>>, "")>> \o ElementCalls(s_args)
    \o << Call("SetMsgId", <<s_msg_id>>, ""), Call("Close", <<>>, ""),
          Call("GetBuffer", <<>>, ""), Call("Transport.Send", SendAloneBuffer, "") >>

\* What the Receive has been given of a message, and what a decoder and
\* a handler of their own make of it.
Given(script) ==
  SubSeq(script, 1,
         Len(script) - Len(rx) - (IF r_pc = "feed" THEN Len(r_buf) ELSE 0))

ReceiveAlone(script) ==
  LET r == OnData(NewDecoder, RxHandler, Given(script))
  IN /\ Len(rx) <= Len(script)
     /\ rx = SubSeq(script, Len(script) - Len(rx) + 1, Len(script))
     /\ r_pc # "idle" => handler = r.h /\ decoder = r.dec /\ cbs = r.cbs

\* The Send and the Receive are where they are when each runs alone.
C18_AsWhenAlone ==
  scenario = "duplex" =>
    /\ s_pc # "idle" =>
         /\ Len(calls) <= Len(SendAloneCalls)
         /\ calls = SubSeq(SendAloneCalls, 1, Len(calls))
         /\ s_pc = "Transport" => s_buf = SendAloneBuffer
         /\ s_pc = "done" =>
              /\ calls = SendAloneCalls
              /\ s_buf = SendAloneBuffer
              /\ s_ret \in TransportSendResults(SendAloneBuffer)
    /\ \E script \in ShortScripts : ReceiveAlone(script)
    /\ \A i \in 1..Len(disp) :
         /\ disp[i].id = MsgId(handler)
         /\ disp[i].op = "OnMsgIn" =>
              /\ disp[i].np = GetArgCount(handler)
              /\ \A k \in 1..disp[i].np : disp[i].args[k] = GetArg(handler, k - 1)
    /\ r_pc = "done" => ReturnedOneOutcome

\* C18: a Send and a Receive running at once on one channel do not meet
\* in the channel. No step of the Send changes anything of the Receive or
\* of what the transport holds for it, no step of the Receive changes
\* anything of the Send, and under every interleaving the Send makes the
\* encoder calls and hands over the buffer it makes alone, and the
\* Receive decodes, dispatches and returns what it does alone.
C18_NoInterference ==
  /\ []C18_AsWhenAlone
  /\ [][ /\ s_vars' # s_vars => (r_vars' = r_vars /\ rx' = rx)
         /\ r_vars' # r_vars => s_vars' = s_vars ]_vars

\* Both calls are under way at once, and later both have returned: the
\* Send with what the transport wrote, the Receive with its handler's
\* result.
C18_Witness ==
  /\ scenario = "duplex"
  /\ s_pc = "done" /\ n_args = 2 /\ s_ret = Len(s_buf)
  /\ r_pc = "done" /\ Routable /\ r_ret = 5 /\ GetArgCount(handler) = 2

\* The Send is in its argument loop while the Receive is in its copy loop.
C18_BothUnderWay ==
  /\ scenario = "duplex"
  /\ s_pc = "args" /\ s_ix = 1
  /\ r_pc = "copy" /\ r_ix = 1

=============================================================================
